---- MODULE Spec2Model ----
(***************************************************************************)
(* Model of the ML-backed optimization instance generator                  *)
(* (src/src/instance_generator/ml-opt/main.py): the metric evaluator, the  *)
(* unit, feature-bound and constraint generators, the instance assembler   *)
(* and the generation driver, with the Python values, the binary64         *)
(* arithmetic and the calendar arithmetic they compute with.               *)
(***************************************************************************)
EXTENDS Integers, Sequences, FiniteSets, TLC

(***************************************************************************)
(* Natural numbers of any size, as little-endian sequences of limbs.  TLC's *)
(* integers are 32 bits wide; a binary64 significand has 53 bits and the    *)
(* exact product of two has 106.  The empty sequence is zero and no number  *)
(* has a zero top limb.                                                     *)
(***************************************************************************)
Base == 2^15

Pow2(k) == 2^k

RECURSIVE BNorm(_)
BNorm(a) ==
  IF a = <<>> THEN a
  ELSE IF a[Len(a)] = 0 THEN BNorm(SubSeq(a, 1, Len(a) - 1))
  ELSE a

RECURSIVE BFromNat(_)
BFromNat(n) == IF n = 0 THEN <<>> ELSE <<n % Base>> \o BFromNat(n \div Base)

RECURSIVE BAddC(_, _, _)
BAddC(a, b, c) ==
  IF a = <<>> /\ b = <<>> THEN (IF c = 0 THEN <<>> ELSE <<c>>)
  ELSE LET x == IF a = <<>> THEN 0 ELSE a[1]
           y == IF b = <<>> THEN 0 ELSE b[1]
           s == x + y + c
           ra == IF a = <<>> THEN a ELSE Tail(a)
           rb == IF b = <<>> THEN b ELSE Tail(b)
       IN <<s % Base>> \o BAddC(ra, rb, s \div Base)

BAdd(a, b) == BAddC(a, b, 0)

\* a - b - c for a >= b + c
RECURSIVE BSubC(_, _, _)
BSubC(a, b, c) ==
  IF a = <<>> THEN <<>>
  ELSE LET y == IF b = <<>> THEN 0 ELSE b[1]
           d == a[1] - y - c
           rb == IF b = <<>> THEN b ELSE Tail(b)
       IN IF d < 0 THEN <<d + Base>> \o BSubC(Tail(a), rb, 1)
          ELSE <<d>> \o BSubC(Tail(a), rb, 0)

BSub(a, b) == BNorm(BSubC(a, b, 0))

\* -1, 0, 1 as a < b, a = b, a > b
RECURSIVE BCmpTop(_, _, _)
BCmpTop(a, b, i) ==
  IF i = 0 THEN 0
  ELSE IF a[i] < b[i] THEN -1
  ELSE IF a[i] > b[i] THEN 1
  ELSE BCmpTop(a, b, i - 1)

BCmp(a, b) ==
  IF Len(a) < Len(b) THEN -1
  ELSE IF Len(a) > Len(b) THEN 1
  ELSE BCmpTop(a, b, Len(a))

RECURSIVE BMulSmallC(_, _, _)
BMulSmallC(a, k, c) ==
  IF a = <<>> THEN (IF c = 0 THEN <<>> ELSE <<c>>)
  ELSE LET p == a[1] * k + c
       IN <<p % Base>> \o BMulSmallC(Tail(a), k, p \div Base)

BMulSmall(a, k) == IF k = 0 THEN <<>> ELSE BMulSmallC(a, k, 0)

RECURSIVE BMul(_, _)
BMul(a, b) ==
  IF a = <<>> \/ b = <<>> THEN <<>>
  ELSE BAdd(BMulSmall(a, b[1]), BNorm(<<0>> \o BMul(a, Tail(b))))

Zeros(n) == [i \in 1..n |-> 0]

\* a * 2^k
BShl(a, k) ==
  IF a = <<>> THEN a
  ELSE Zeros(k \div 15) \o BMulSmall(a, Pow2(k % 15))

\* floor(a / d) for 0 < d <= Base, from the top limb down; r is the carry in
RECURSIVE BDivSmallR(_, _, _)
BDivSmallR(a, d, r) ==
  IF a = <<>> THEN <<>>
  ELSE LET n == Len(a)
           x == r * Base + a[n]
       IN BDivSmallR(SubSeq(a, 1, n - 1), d, x % d) \o <<x \div d>>

\* floor(a / 2^k)
BShr(a, k) ==
  IF k \div 15 >= Len(a) THEN <<>>
  ELSE BNorm(BDivSmallR(SubSeq(a, (k \div 15) + 1, Len(a)), Pow2(k % 15), 0))

RECURSIVE NatBitLen(_)
NatBitLen(n) == IF n = 0 THEN 0 ELSE 1 + NatBitLen(n \div 2)

BBitLen(a) == IF a = <<>> THEN 0 ELSE 15 * (Len(a) - 1) + NatBitLen(a[Len(a)])

RECURSIVE NatTrailingZeros(_)
NatTrailingZeros(n) == IF n % 2 = 1 THEN 0 ELSE 1 + NatTrailingZeros(n \div 2)

\* the number of trailing zero bits of a > 0
RECURSIVE BTrailingZeros(_)
BTrailingZeros(a) ==
  IF a[1] = 0 THEN 15 + BTrailingZeros(Tail(a)) ELSE NatTrailingZeros(a[1])

BIsOdd(a) == a # <<>> /\ a[1] % 2 = 1

\* the largest q in lo..hi-1 with q * d <= r, given lo * d <= r < hi * d
RECURSIVE QSearch(_, _, _, _)
QSearch(r, d, lo, hi) ==
  IF hi - lo = 1 THEN lo
  ELSE LET mid == (lo + hi) \div 2
       IN IF BCmp(BMulSmall(d, mid), r) <= 0 THEN QSearch(r, d, mid, hi)
          ELSE QSearch(r, d, lo, mid)

\* <<floor(n / d), n mod d>> for d > 0, by long division, one limb at a time
RECURSIVE BDivMod(_, _)
BDivMod(n, d) ==
  IF n = <<>> THEN <<<<>>, <<>>>>
  ELSE LET qr == BDivMod(Tail(n), d)
           r == BNorm(<<n[1]>> \o qr[2])
           q == QSearch(r, d, 0, Base)
       IN <<BNorm(<<q>> \o qr[1]), BSub(r, BMulSmall(d, q))>>

(***************************************************************************)
(* IEEE 754 binary64, the element type of y_true.astype(float): a value is *)
(* a NaN, an infinity or (-1)^s * m * 2^e with m a natural number.  Finite  *)
(* values are kept in one form (m odd, or m = 0 with s = 0 and e = 0), so   *)
(* equal numbers are equal records; the sign of zero is not kept.  Every    *)
(* operation computes the exact result and rounds it once, to nearest, ties *)
(* to even (a sum whose smaller term lies more than MantBits + 2 binary     *)
(* places below the larger one rounds to the larger one).                   *)
(***************************************************************************)
MantBits == 53
EMin == -1074
EMax == 1024

FNaN == [k |-> "nan", s |-> 0, m |-> <<>>, e |-> 0]
FInf(sg) == [k |-> "inf", s |-> sg, m |-> <<>>, e |-> 0]
FZero == [k |-> "fin", s |-> 0, m |-> <<>>, e |-> 0]

FCanon(sg, m, e) ==
  LET tz == BTrailingZeros(m)
  IN [k |-> "fin", s |-> sg, m |-> BShr(m, tz), e |-> e + tz]

\* the binary64 nearest to (-1)^sg * m * 2^e
FRound(sg, m, e) ==
  IF m = <<>> THEN FZero
  ELSE LET L == BBitLen(m)
           d0 == IF L - MantBits > EMin - e THEN L - MantBits ELSE EMin - e
           drop == IF d0 > 0 THEN d0 ELSE 0
           q == BShr(m, drop)
           rem == BSub(m, BShl(q, drop))
           c == IF drop = 0 THEN -1 ELSE BCmp(rem, BShl(<<1>>, drop - 1))
           r == IF c > 0 \/ (c = 0 /\ BIsOdd(q)) THEN BAddC(q, <<>>, 1) ELSE q
       IN IF r = <<>> THEN FZero
          ELSE IF BBitLen(r) + e + drop > EMax THEN FInf(sg)
          ELSE FCanon(sg, r, e + drop)

FromInt(n) == IF n < 0 THEN FRound(1, BFromNat(-n), 0) ELSE FRound(0, BFromNat(n), 0)

FIsZero(a) == a.k = "fin" /\ a.m = <<>>

FNeg(a) == IF a.k = "nan" \/ FIsZero(a) THEN a ELSE [a EXCEPT !.s = 1 - a.s]

FAdd(a, b) ==
  IF a.k = "nan" \/ b.k = "nan" THEN FNaN
  ELSE IF a.k = "inf" THEN (IF b.k = "inf" /\ b.s # a.s THEN FNaN ELSE a)
  ELSE IF b.k = "inf" THEN b
  ELSE IF FIsZero(a) THEN b
  ELSE IF FIsZero(b) THEN a
  ELSE IF (a.e + BBitLen(a.m)) - (b.e + BBitLen(b.m)) > MantBits + 2 THEN a
  ELSE IF (b.e + BBitLen(b.m)) - (a.e + BBitLen(a.m)) > MantBits + 2 THEN b
  ELSE LET e == IF a.e < b.e THEN a.e ELSE b.e
           ma == BShl(a.m, a.e - e)
           mb == BShl(b.m, b.e - e)
           c == BCmp(ma, mb)
       IN IF a.s = b.s THEN FRound(a.s, BAdd(ma, mb), e)
          ELSE IF c = 0 THEN FZero
          ELSE IF c > 0 THEN FRound(a.s, BSub(ma, mb), e)
          ELSE FRound(b.s, BSub(mb, ma), e)

FSub(a, b) == FAdd(a, FNeg(b))

FMul(a, b) ==
  LET sg == (a.s + b.s) % 2
  IN IF a.k = "nan" \/ b.k = "nan" THEN FNaN
     ELSE IF a.k = "inf" \/ b.k = "inf"
          THEN (IF FIsZero(a) \/ FIsZero(b) THEN FNaN ELSE FInf(sg))
     ELSE FRound(sg, BMul(a.m, b.m), a.e + b.e)

\* numpy's true_divide: x/0 is an infinity and 0/0 a NaN (a warning, no exception)
FDiv(a, b) ==
  LET sg == (a.s + b.s) % 2
  IN IF a.k = "nan" \/ b.k = "nan" THEN FNaN
     ELSE IF a.k = "inf" THEN (IF b.k = "inf" THEN FNaN ELSE FInf(sg))
     ELSE IF b.k = "inf" THEN FZero
     ELSE IF FIsZero(b) THEN (IF FIsZero(a) THEN FNaN ELSE FInf(sg))
     ELSE IF FIsZero(a) THEN FZero
     ELSE LET d == MantBits + 2 + BBitLen(b.m) - BBitLen(a.m)
              sh == IF d > 0 THEN d ELSE 0
              qr == BDivMod(BShl(a.m, sh), b.m)
          IN IF qr[2] = <<>> THEN FRound(sg, qr[1], a.e - b.e - sh)
             ELSE FRound(sg, BAddC(qr[1], qr[1], 1), a.e - b.e - sh - 1)

\* == on binary64: a NaN equals nothing
FEq(a, b) == a.k # "nan" /\ b.k # "nan" /\ a = b

\* the binary64 a decimal literal n/10^k denotes (n/d rounded once)
FDec(n, d) == FDiv(FromInt(n), FromInt(d))

(***************************************************************************)
(* numpy on one-dimensional float arrays (sequences of binary64).  np.sum   *)
(* adds from the left for fewer than 8 elements; np.mean is np.sum divided  *)
(* by the element count.                                                    *)
(***************************************************************************)
RECURSIVE np_sum_from(_, _, _)
np_sum_from(a, i, acc) ==
  IF i > Len(a) THEN acc ELSE np_sum_from(a, i + 1, FAdd(acc, a[i]))

np_sum(a) == np_sum_from(a, 1, FZero)

np_mean(a) == FDiv(np_sum(a), FromInt(Len(a)))

\* (a - b) ** 2, elementwise; b is an array of a's length
np_sqdiff(a, b) ==
  [i \in 1..Len(a) |-> LET d == FSub(a[i], b[i]) IN FMul(d, d)]

Broadcast(v, n) == [i \in 1..n |-> v]

_r2_score(y_true, y_pred) ==
  LET ss_res == np_sum(np_sqdiff(y_true, y_pred))
      ss_tot == np_sum(np_sqdiff(y_true, Broadcast(np_mean(y_true), Len(y_true))))
  IN IF FEq(ss_tot, FZero) THEN FZero
     ELSE FSub(FromInt(1), FDiv(ss_res, ss_tot))

(***************************************************************************)
(* Python values: an int, a float, a str, a list (a sequence of values) or  *)
(* a dict (its key/value pairs in insertion order).  A call either returns  *)
(* a value or raises.                                                       *)
(***************************************************************************)
PyInt(i) == [t |-> "int", v |-> i]
PyFloat(f) == [t |-> "float", v |-> f]
PyStr(text) == [t |-> "str", v |-> text]
PyList(items) == [t |-> "list", v |-> items]
PyDict(items) == [t |-> "dict", v |-> items]

\* d[key]
DictGet(d, key) ==
  LET i == CHOOSE j \in 1..Len(d.v) : d.v[j][1] = key IN d.v[i][2]

DictKeys(d) == [i \in 1..Len(d.v) |-> d.v[i][1]]

StrList(names) == PyList([i \in 1..Len(names) |-> PyStr(names[i])])

Return(val) == [raised |-> "none", value |-> val]
Raise(exc) == [raised |-> exc, value |-> <<>>]

(***************************************************************************)
(* The proleptic Gregorian calendar of Python's datetime: a date is         *)
(* <<year, month, day>> with 1 <= year <= 9999, and date arithmetic goes    *)
(* through the day's ordinal (0001-01-01 is day 1).                          *)
(***************************************************************************)
MINYEAR == 1
MAXYEAR == 9999

_is_leap(y) == y % 4 = 0 /\ (y % 100 # 0 \/ y % 400 = 0)

_days_in_month(y, m) ==
  IF m = 2 THEN (IF _is_leap(y) THEN 29 ELSE 28)
  ELSE IF m \in {4, 6, 9, 11} THEN 30 ELSE 31

_days_before_year(y) ==
  LET p == y - 1 IN p * 365 + p \div 4 - p \div 100 + p \div 400

RECURSIVE _days_before_month(_, _)
_days_before_month(y, m) ==
  IF m = 1 THEN 0 ELSE _days_before_month(y, m - 1) + _days_in_month(y, m - 1)

_ymd2ord(y, m, d) == _days_before_year(y) + _days_before_month(y, m) + d

_MAXORDINAL == _ymd2ord(MAXYEAR, 12, 31)

\* the date of ordinal n, 1 <= n <= _MAXORDINAL
_ord2ymd(n) ==
  LET n0 == n - 1
      n400 == n0 \div 146097
      r400 == n0 % 146097
      n100 == r400 \div 36524
      r100 == r400 % 36524
      n4 == r100 \div 1461
      r4 == r100 % 1461
      n1 == r4 \div 365
      r1 == r4 % 365
      year == n400 * 400 + 1 + n100 * 100 + n4 * 4 + n1
      leapyear == n1 = 3 /\ (n4 # 24 \/ n100 = 3)
      month0 == (r1 + 50) \div 32
      before0 == _days_before_month(IF leapyear THEN 4 ELSE 1, month0)
      month == IF before0 > r1 THEN month0 - 1 ELSE month0
      before == _days_before_month(IF leapyear THEN 4 ELSE 1, month)
  IN IF n1 = 4 \/ n100 = 4 THEN <<year - 1, 12, 31>>
     ELSE <<year, month, r1 - before + 1>>

\* datetime + timedelta(days): OverflowError outside 0001-01-01..9999-12-31
datetime_add(date, days) ==
  LET o == _ymd2ord(date[1], date[2], date[3]) + days
  IN IF 0 < o /\ o <= _MAXORDINAL THEN Return(_ord2ymd(o))
     ELSE Raise("OverflowError")

\* a faulty variant: weeks counted as days
timedelta_weeks_as_days(w) == w

\* timedelta(weeks=w), in days
timedelta_weeks(w) == 7 * w

Digit(c) ==
  CASE c = "0" -> 0 [] c = "1" -> 1 [] c = "2" -> 2 [] c = "3" -> 3
    [] c = "4" -> 4 [] c = "5" -> 5 [] c = "6" -> 6 [] c = "7" -> 7
    [] c = "8" -> 8 [] c = "9" -> 9 [] OTHER -> -1

RECURSIVE ParseDigits(_, _)
\* the number the digits of text spell after acc, or -1 when one is no digit
ParseDigits(text, acc) ==
  IF Len(text) = 0 THEN acc
  ELSE LET d == Digit(SubSeq(text, 1, 1))
       IN IF d < 0 THEN -1 ELSE ParseDigits(SubSeq(text, 2, Len(text)), 10 * acc + d)

\* datetime.strptime(text, "%Y-%m-%d"): four digits, "-", a month of one or two
\* digits, "-", a day of one or two digits (or a space and a digit), and
\* nothing more; ValueError when text is not so written or names no date
strptime(text) ==
  LET n == Len(text)
      mlen == IF n >= 7 /\ SubSeq(text, 7, 7) = "-" THEN 1 ELSE 2
      dpos == 7 + mlen
      shaped == /\ n \in {dpos, dpos + 1}
                /\ SubSeq(text, 5, 5) = "-"
                /\ SubSeq(text, 6 + mlen, 6 + mlen) = "-"
      y == ParseDigits(SubSeq(text, 1, 4), 0)
      m == ParseDigits(SubSeq(text, 6, 5 + mlen), 0)
      d == IF SubSeq(text, dpos, dpos) = " " /\ n = dpos + 1
           THEN ParseDigits(SubSeq(text, dpos + 1, n), 0)
           ELSE ParseDigits(SubSeq(text, dpos, n), 0)
  IN IF ~shaped THEN Raise("ValueError")
     ELSE IF y < MINYEAR \/ y > MAXYEAR \/ m < 1 \/ m > 12 THEN Raise("ValueError")
     ELSE IF d < 1 \/ d > _days_in_month(y, m) THEN Raise("ValueError")
     ELSE Return(<<y, m, d>>)

(***************************************************************************)
(* The generators and the instance assembler.  Feature names are strings,   *)
(* feature lists sequences of them; df is the dataset (read, never changed).*)
(***************************************************************************)
str(i) == ToString(i)

DEFAULT_BASE_DATE == "2023-08-06"

unit(i, date) ==
  PyDict(<< <<"unit_id", PyInt(i)>>,
            <<"constant_features",
              PyDict(<< <<"year", PyInt(date[1])>>,
                        <<"month", PyInt(date[2])>>,
                        <<"day", PyInt(date[3])>> >>)>> >>)

\* the loop body's date for each i in range(n_units); the first that raises
\* ends the call
generate_units(n_units, base_date) ==
  LET base == strptime(base_date)
      dates == [i \in 1..n_units |->
                  datetime_add(base.value, timedelta_weeks(i - 1))]
  IN IF base.raised # "none" THEN Raise(base.raised)
     ELSE IF \E i \in 1..n_units : dates[i].raised # "none"
          THEN Raise("OverflowError")
     ELSE Return(PyList([i \in 1..n_units |-> unit(i - 1, dates[i].value)]))

get_feature_bounds(df, opt_features) ==
  PyList([j \in 1..Len(opt_features) |->
    PyDict(<< <<"name", PyStr(opt_features[j])>>,
              <<"lower_bound", PyFloat(FromInt(0))>>,
              <<"upper_bound", PyFloat(FromInt(500))>>,
              <<"type", PyStr("continuous")>> >>)])

\* a faulty variant: every term names unit 0
sum_constraint_first_unit(unit_id, opt_features) ==
  PyDict(<< <<"constraint_id", PyStr("unit_" \o str(unit_id) \o "_total")>>,
            <<"description",
              PyStr("Total sum constraint for unit " \o str(unit_id))>>,
            <<"variables",
              PyList([j \in 1..Len(opt_features) |->
                PyDict(<< <<"unit_id", PyInt(0)>>,
                          <<"feature", PyStr(opt_features[j])>>,
                          <<"coefficient", PyFloat(FromInt(1))>> >>)])>>,
            <<"upper_bound", PyFloat(FromInt(1000))>> >>)

sum_constraint(unit_id, opt_features) ==
  PyDict(<< <<"constraint_id", PyStr("unit_" \o str(unit_id) \o "_total")>>,
            <<"description",
              PyStr("Total sum constraint for unit " \o str(unit_id))>>,
            <<"variables",
              PyList([j \in 1..Len(opt_features) |->
                PyDict(<< <<"unit_id", PyInt(unit_id)>>,
                          <<"feature", PyStr(opt_features[j])>>,
                          <<"coefficient", PyFloat(FromInt(1))>> >>)])>>,
            <<"upper_bound", PyFloat(FromInt(1000))>> >>)

\* a faulty variant: range(1, n_units)
generate_sum_constraints_from_one(n_units, opt_features) ==
  PyList([i \in 1..(n_units - 1) |-> sum_constraint(i, opt_features)])

generate_sum_constraints(n_units, opt_features) ==
  PyList([i \in 1..n_units |-> sum_constraint(i - 1, opt_features)])

\* a faulty variant: input_features_order is const_features + opt_features
create_instance_json_const_first(n_units, n_estimators, opt_features, const_features, df, model_filename) ==
  LET units == generate_units(n_units, DEFAULT_BASE_DATE)
      feature_bounds == get_feature_bounds(df, opt_features)
      sum_constraints == generate_sum_constraints(n_units, opt_features)
  IN IF units.raised # "none" THEN Raise(units.raised)
     ELSE Return(PyDict(<<
       <<"n_units", PyInt(n_units)>>,
       <<"n_optimization_features", PyInt(Len(opt_features))>>,
       <<"n_constant_features", PyInt(Len(const_features))>>,
       <<"n_sum_constraints", PyInt(Len(sum_constraints.v))>>,
       <<"features",
         PyDict(<< <<"optimization_features", feature_bounds>>,
                   <<"constant_features", StrList(const_features)>> >>)>>,
       <<"units", units.value>>,
       <<"constraints", PyDict(<< <<"sum_constraints", sum_constraints>> >>)>>,
       <<"model",
         PyDict(<< <<"file_path", PyStr(model_filename)>>,
                   <<"input_features_order",
                     StrList(const_features \o opt_features)>> >>)>> >>))

create_instance_json(n_units, n_estimators, opt_features, const_features, df, model_filename) ==
  LET units == generate_units(n_units, DEFAULT_BASE_DATE)
      feature_bounds == get_feature_bounds(df, opt_features)
      sum_constraints == generate_sum_constraints(n_units, opt_features)
  IN IF units.raised # "none" THEN Raise(units.raised)
     ELSE Return(PyDict(<<
       <<"n_units", PyInt(n_units)>>,
       <<"n_optimization_features", PyInt(Len(opt_features))>>,
       <<"n_constant_features", PyInt(Len(const_features))>>,
       <<"n_sum_constraints", PyInt(Len(sum_constraints.v))>>,
       <<"features",
         PyDict(<< <<"optimization_features", feature_bounds>>,
                   <<"constant_features", StrList(const_features)>> >>)>>,
       <<"units", units.value>>,
       <<"constraints", PyDict(<< <<"sum_constraints", sum_constraints>> >>)>>,
       <<"model",
         PyDict(<< <<"file_path", PyStr(model_filename)>>,
                   <<"input_features_order",
                     StrList(opt_features \o const_features)>> >>)>> >>))

(***************************************************************************)
(* json.dump(obj, f, ensure_ascii=False, indent=2): the text written.  A    *)
(* dict's keys come in insertion order; strings here hold no quote,         *)
(* backslash or control character, so they are written as they are.         *)
(***************************************************************************)
Spaces(level) == [i \in 1..(2 * level) |-> " "]

RECURSIVE Concat(_, _)
Concat(parts, i) == IF i > Len(parts) THEN "" ELSE parts[i] \o Concat(parts, i + 1)

Indent(level) == Concat(Spaces(level), 1)

\* repr(float) of a whole number below 2^31, NaN or an infinity
float_repr(f) ==
  CASE f.k = "nan" -> "NaN"
    [] f.k = "inf" -> (IF f.s = 1 THEN "-Infinity" ELSE "Infinity")
    [] f.k = "fin" /\ f.m = <<>> -> "0.0"
    [] f.k = "fin" /\ f.m # <<>> /\ f.e >= 0 /\ BBitLen(f.m) + f.e < 32 ->
         (IF f.s = 1 THEN "-" ELSE "")
           \o str((f.m[1] + (IF Len(f.m) > 1 THEN f.m[2] * Base ELSE 0)
                          + (IF Len(f.m) > 2 THEN f.m[3] * Base * Base ELSE 0))
                  * Pow2(f.e))
           \o ".0"

RECURSIVE json_dumps_at(_, _)
json_dumps_at(obj, level) ==
  CASE obj.t = "int" -> str(obj.v)
    [] obj.t = "float" -> float_repr(obj.v)
    [] obj.t = "str" -> "\"" \o obj.v \o "\""
    [] obj.t = "list" ->
         IF obj.v = <<>> THEN "[]"
         ELSE "[\n"
              \o Concat([i \in 1..Len(obj.v) |->
                           Indent(level + 1) \o json_dumps_at(obj.v[i], level + 1)
                           \o (IF i < Len(obj.v) THEN ",\n" ELSE "\n")], 1)
              \o Indent(level) \o "]"
    [] obj.t = "dict" ->
         IF obj.v = <<>> THEN "{}"
         ELSE "{\n"
              \o Concat([i \in 1..Len(obj.v) |->
                           Indent(level + 1) \o "\"" \o obj.v[i][1] \o "\": "
                           \o json_dumps_at(obj.v[i][2], level + 1)
                           \o (IF i < Len(obj.v) THEN ",\n" ELSE "\n")], 1)
              \o Indent(level) \o "}"

json_dumps(obj) == json_dumps_at(obj, 0)

(***************************************************************************)
(* The dataset, and the two libraries the trainer calls.  A DataFrame is    *)
(* its column names in file order and each column's values.  polars'        *)
(* df.select raises ColumnNotFoundError for a missing column.  lightgbm is  *)
(* not part of the repository: a booster is what lgb.train was given, and   *)
(* what it predicts for its training rows is the library's answer, one of   *)
(* two the library can give (lgb_fit): the labels themselves, or their mean *)
(* on every row (no split found).                                           *)
(***************************************************************************)
VARIABLES
  csv,                \* data/data.csv, as pl.read_csv returns it
  lgb_fit,            \* how lightgbm fits: "exact" or "mean"
  n_estimators_list,  \* the complexity grid of this run
  n_units_list,       \* the unit-count grid of this run
  files0,             \* the output directory before the first run
  files,              \* the output directory: file name -> text
  pc,                 \* where main is
  run,                \* which run of main this is
  df,                 \* main's df
  booster,            \* main's booster
  ei,                 \* index of n_estimators in n_estimators_list
  ui,                 \* index of n_units in n_units_list
  trace,              \* this run's file-system calls, in order
  lgb_calls,          \* this run's lgb.train calls, in order
  log,                \* this run's logged R2 scores, in order
  error,              \* the exception that ended this run, or "none"
  history,            \* the outputs of the runs that completed
  call                \* a call of one of the pure functions, with its result

driver_vars == <<csv, lgb_fit, n_estimators_list, n_units_list, files0, files,
                 pc, run, df, booster, ei, ui, trace, lgb_calls, log, error,
                 history>>
vars == <<driver_vars, call>>

\* a faulty variant: a missing column is selected as an empty one
df_select_lenient(frame, cols) ==
  Return([j \in 1..Len(cols) |->
            IF cols[j] \in DOMAIN frame.data THEN frame.data[cols[j]] ELSE <<>>])

\* df.select(cols).to_numpy(), column by column
df_select(frame, cols) ==
  IF \E j \in 1..Len(cols) : cols[j] \notin DOMAIN frame.data
  THEN Raise("ColumnNotFoundError")
  ELSE Return([j \in 1..Len(cols) |-> frame.data[cols[j]]])

lgb_train(X, y, num_boost_round) ==
  [objective |-> "regression", X |-> X, y |-> y,
   num_boost_round |-> num_boost_round]

booster_predict(bst, X) ==
  IF lgb_fit = "exact" THEN bst.y
  ELSE Broadcast(np_mean(bst.y), Len(bst.y))

\* the text booster.save_model writes: lightgbm's own format, of which only
\* that it is a function of the booster is kept
booster_model_to_string(bst) ==
  "tree\nobjective=" \o bst.objective
    \o "\nnum_boost_round=" \o str(bst.num_boost_round)
    \o "\nmax_feature_idx=" \o str(Len(bst.X) - 1)
    \o "\nnum_data=" \o str(Len(bst.y)) \o "\n"

\* the booster, with what was given to lgb.train and the R2 score logged
make_predicotr(frame, feature_cols, target_col, n_estimators) ==
  LET X == df_select(frame, feature_cols)
      y == df_select(frame, <<target_col>>)
      bst == lgb_train(X.value, y.value[1], n_estimators)
      y_pred == booster_predict(bst, X.value)
  IN IF X.raised # "none" THEN Raise(X.raised)
     ELSE IF y.raised # "none" THEN Raise(y.raised)
     ELSE Return([booster |-> bst,
                  fitted |-> [feature_cols |-> feature_cols,
                              target_col |-> target_col,
                              n_estimators |-> n_estimators,
                              X |-> bst.X, y |-> bst.y],
                  r2 |-> _r2_score(y.value[1], y_pred)])

(***************************************************************************)
(* main: its constants, the file names it builds, and its steps.            *)
(***************************************************************************)
opt_feature_cols == <<"x1", "x2", "x3", "x4", "x5", "x6", "x7">>
const_feature_cols == <<"year", "month", "day">>
main_feature_cols == opt_feature_cols \o const_feature_cols
main_target_col == "y"
N_ESTIMATORS_LIST == <<100, 500, 1000, 5000>>
N_UNITS_LIST == <<1, 10, 50>>

model_filename(n_estimators) == "lgbm_" \o str(n_estimators) \o ".txt"

\* a faulty variant: the file name leaves out n_estimators
json_filename_units_only(n_units, n_estimators) ==
  "instance_" \o str(n_units) \o "units.json"

json_filename(n_units, n_estimators) ==
  "instance_" \o str(n_units) \o "units_" \o str(n_estimators) \o "est.json"

\* a faulty variant: the file is opened for appending
write_file_append(disk, path, text) ==
  [f \in DOMAIN disk \cup {path} |->
     IF f = path THEN (IF path \in DOMAIN disk THEN disk[path] ELSE "") \o text
     ELSE disk[f]]

\* open(path, "w") and a complete write: the file holds text and nothing else
write_file(disk, path, text) ==
  [f \in DOMAIN disk \cup {path} |-> IF f = path THEN text ELSE disk[f]]

\* the "features" and "model" entries of an instance
InstanceHead(instance) ==
  PyDict(<< <<"features", DictGet(instance, "features")>>,
            <<"model", DictGet(instance, "model")>> >>)

\* a file-system call: what was called, on which file name, whether it
\* succeeded, and what was to be written (of a model its text, of an instance
\* its "features" and "model" entries; the whole text goes to the file)
Event(op, path, ok, obj) == [op |-> op, path |-> path, ok |-> ok, obj |-> obj]

None == PyStr("")

(***************************************************************************)
(* What a run starts from: the dataset file (whole, or lacking a column),   *)
(* the library's fit, the grids (the source's, or a leading part of them),  *)
(* and the output directory (empty, or holding files of an earlier          *)
(* generator).                                                              *)
(***************************************************************************)
DataRows == 3
MaxRuns == 2

Range(seq) == {seq[i] : i \in 1..Len(seq)}

Without(seq, x) == SelectSeq(seq, LAMBDA c : c # x)

CSV_COLUMNS == main_feature_cols \o <<main_target_col>>

Frame(cols) ==
  [columns |-> cols,
   data |-> [c \in Range(cols) |->
               [i \in 1..DataRows |->
                  IF c = main_target_col THEN FDec(2 * i - 1, 10)
                  ELSE FromInt(10 * (CHOOSE k \in 1..Len(cols) : cols[k] = c) + i)]]]

Datasets ==
  {Frame(CSV_COLUMNS), Frame(Without(CSV_COLUMNS, "x3")),
   Frame(Without(CSV_COLUMNS, main_target_col))}

Prefixes(seq) == {SubSeq(seq, 1, k) : k \in 1..Len(seq)}

EmptyDir == [f \in {} |-> ""]

StaleDir ==
  [f \in {"lgbm_50.txt", "instance_1units_100est.json"} |->
     IF f = "lgbm_50.txt" THEN "tree\n" ELSE "{}"]

NoFrame == [columns |-> <<>>, data |-> EmptyDir]
NoBooster == lgb_train(<<>>, <<>>, 0)
NoCall == [fn |-> "none", args |-> <<>>, result |-> Return(None)]

Idle ==
  /\ pc = "start" /\ run = 1
  /\ df = NoFrame /\ booster = NoBooster
  /\ ei = 0 /\ ui = 0
  /\ trace = <<>> /\ lgb_calls = <<>> /\ log = <<>>
  /\ error = "none" /\ history = <<>>

Init ==
  /\ csv \in Datasets
  /\ lgb_fit \in {"exact", "mean"}
  /\ n_estimators_list \in Prefixes(N_ESTIMATORS_LIST)
  /\ n_units_list \in Prefixes(N_UNITS_LIST)
  /\ files0 \in {EmptyDir, StaleDir}
  /\ files = files0
  /\ Idle
  /\ call = NoCall

env_vars == <<csv, lgb_fit, n_estimators_list, n_units_list, files0>>

\* the exception leaves main: the process ends
Abort(exc) ==
  /\ pc' = "aborted"
  /\ error' = exc

\* lines 184-189: set_logger, random.seed(42) (nothing draws from it),
\* output_dir.mkdir(parents=True, exist_ok=True)
Mkdir ==
  /\ pc = "start"
  /\ \E ok \in BOOLEAN :
       /\ trace' = Append(trace, Event("mkdir", "", ok, None))
       /\ IF ok THEN pc' = "read" /\ error' = error ELSE Abort("OSError")
  /\ UNCHANGED <<env_vars, files, run, df, booster, ei, ui, lgb_calls, log,
                 history, call>>

\* lines 192-203: pl.read_csv, and the first n_estimators of the grid
ReadCsv ==
  /\ pc = "read"
  /\ df' = csv
  /\ ei' = 1
  /\ pc' = "train"
  /\ UNCHANGED <<env_vars, files, run, booster, ui, trace, lgb_calls, log,
                 error, history, call>>

\* lines 204-206: booster = make_predicotr(df, feature_cols, target_col, n_estimators)
Train ==
  /\ pc = "train"
  /\ \E r \in {make_predicotr(df, main_feature_cols, main_target_col,
                               n_estimators_list[ei])} :
       IF r.raised # "none"
       THEN /\ Abort(r.raised)
            /\ UNCHANGED <<booster, lgb_calls, log>>
       ELSE /\ booster' = r.value.booster
            /\ lgb_calls' = Append(lgb_calls, r.value.fitted)
            /\ log' = Append(log, r.value.r2)
            /\ pc' = "save"
            /\ error' = error
  /\ UNCHANGED <<env_vars, files, run, df, ei, ui, trace, history, call>>

\* a faulty variant: save_model is never called
SaveModel_skipped ==
  /\ pc = "save"
  /\ ui' = 1
  /\ pc' = "instance"
  /\ UNCHANGED <<env_vars, files, run, df, booster, ei, trace, lgb_calls, log,
                 error, history, call>>

\* a faulty variant: a failed save_model is caught and the run goes on
SaveModel_failure_swallowed ==
  /\ pc = "save"
  /\ LET path == model_filename(n_estimators_list[ei])
         text == booster_model_to_string(booster)
     IN \E ok \in BOOLEAN :
          /\ trace' = Append(trace, Event("save_model", path, ok, PyStr(text)))
          /\ files' = IF ok THEN write_file(files, path, text) ELSE files
  /\ ui' = 1
  /\ pc' = "instance"
  /\ UNCHANGED <<env_vars, run, df, booster, ei, lgb_calls, log, error,
                 history, call>>

\* lines 208-212: booster.save_model(str(model_path)), and the first n_units.
\* A failed save leaves the file as it was, or cut short (here: empty).
SaveModel ==
  /\ pc = "save"
  /\ \E path \in {model_filename(n_estimators_list[ei])},
        text \in {booster_model_to_string(booster)},
        outcome \in {"ok", "open_failed", "write_failed"} :
       /\ trace' = Append(trace,
                          Event("save_model", path, outcome = "ok", PyStr(text)))
       /\ files' = CASE outcome = "ok" -> write_file(files, path, text)
                     [] outcome = "open_failed" -> files
                     [] outcome = "write_failed" -> write_file(files, path, "")
       /\ IF outcome = "ok"
          THEN ui' = 1 /\ pc' = "instance" /\ error' = error
          ELSE ui' = ui /\ Abort("LightGBMError")
  /\ UNCHANGED <<env_vars, run, df, booster, ei, lgb_calls, log, history, call>>

\* the two for loops: the next n_units, else the next n_estimators, else the
\* end of main (the run's outputs are then recorded)
Advance(disk) ==
  IF ui < Len(n_units_list)
  THEN ui' = ui + 1 /\ ei' = ei /\ pc' = "instance" /\ history' = history
  ELSE IF ei < Len(n_estimators_list)
  THEN ui' = ui /\ ei' = ei + 1 /\ pc' = "train" /\ history' = history
  ELSE /\ ui' = ui /\ ei' = ei /\ pc' = "done"
       /\ history' = Append(history, [files |-> disk, log |-> log])

\* lines 213-231: create_instance_json, open(json_path, "w"), json.dump.
\* A failed open leaves the file as it was; a failed write leaves it cut
\* short (here: empty).
WriteInstance ==
  /\ pc = "instance"
  /\ \E r \in {create_instance_json(n_units_list[ui], n_estimators_list[ei],
                                     opt_feature_cols, const_feature_cols, df,
                                     model_filename(n_estimators_list[ei]))},
        path \in {json_filename(n_units_list[ui], n_estimators_list[ei])} :
       IF r.raised # "none"
       THEN /\ Abort(r.raised)
            /\ UNCHANGED <<files, trace, ei, ui, history>>
       ELSE \E outcome \in {"ok", "open_failed", "write_failed"} :
              /\ trace' = Append(trace,
                            Event("write_instance", path, outcome = "ok",
                                  InstanceHead(r.value)))
              /\ files' =
                   CASE outcome = "ok" ->
                          write_file(files, path, json_dumps(r.value))
                     [] outcome = "open_failed" -> files
                     [] outcome = "write_failed" -> write_file(files, path, "")
              /\ IF outcome = "ok"
                 THEN Advance(files') /\ error' = error
                 ELSE /\ Abort("OSError")
                      /\ UNCHANGED <<ei, ui, history>>
  /\ UNCHANGED <<env_vars, run, df, booster, lgb_calls, log, call>>

\* main is run again, on the directory the run before left
Rerun ==
  /\ pc = "done"
  /\ run < MaxRuns
  /\ run' = run + 1
  /\ pc' = "start"
  /\ df' = NoFrame /\ booster' = NoBooster
  /\ ei' = 0 /\ ui' = 0
  /\ trace' = <<>> /\ lgb_calls' = <<>> /\ log' = <<>>
  /\ UNCHANGED <<env_vars, files, error, history, call>>

Next == Mkdir \/ ReadCsv \/ Train \/ SaveModel \/ WriteInstance \/ Rerun

Spec == Init /\ [][Next]_vars

(***************************************************************************)
(* The pure functions, called on their own: one call at a time, with        *)
(* arguments drawn from bounded sets.  The driver does not run here.        *)
(***************************************************************************)
MaxUnits == 3
MaxFeatures == 2
MaxVecLen == 3

FeatureNames == {"x1", "x2", "day"}

SeqsUpTo(S, n) == UNION {[1..k -> S] : k \in 0..n}

OptLists == SeqsUpTo(FeatureNames, MaxFeatures) \cup {opt_feature_cols}

ConstLists == Prefixes(const_feature_cols) \cup {<<>>}

\* base dates as written, and the calendar dates they name
BaseDateTable ==
  {<<DEFAULT_BASE_DATE, <<2023, 8, 6>>>>, <<"2024-02-20", <<2024, 2, 20>>>>,
   <<"2023-12-25", <<2023, 12, 25>>>>, <<"1900-2-15", <<1900, 2, 15>>>>,
   <<"0001-01-01", <<1, 1, 1>>>>, <<"9999-12-20", <<9999, 12, 20>>>>}

BaseDates == {p[1] : p \in BaseDateTable}

\* 0.1, 1.0 and 3.0
R2Values == {FDec(1, 10), FromInt(1), FromInt(3)}

\* a dataset of one feature column and the target
SmallFrame == Frame(<<"x1", main_target_col>>)

DriverIdle ==
  /\ csv = NoFrame
  /\ lgb_fit = "exact"
  /\ n_estimators_list = N_ESTIMATORS_LIST
  /\ n_units_list = N_UNITS_LIST
  /\ files0 = EmptyDir
  /\ files = EmptyDir
  /\ Idle

FnInit == DriverIdle /\ call = NoCall

Called(fn, args, result) == [fn |-> fn, args |-> args, result |-> result]

CallGenerateUnits ==
  /\ call.fn = "none"
  /\ \E n \in 0..MaxUnits, base_date \in BaseDates :
       call' = Called("generate_units", <<n, base_date>>,
                      generate_units(n, base_date))
  /\ UNCHANGED driver_vars

CallGetFeatureBounds ==
  /\ call.fn = "none"
  /\ \E opt \in OptLists :
       call' = Called("get_feature_bounds", <<SmallFrame, opt>>,
                      Return(get_feature_bounds(SmallFrame, opt)))
  /\ UNCHANGED driver_vars

CallGenerateSumConstraints ==
  /\ call.fn = "none"
  /\ \E n \in 0..MaxUnits, opt \in OptLists :
       call' = Called("generate_sum_constraints", <<n, opt>>,
                      Return(generate_sum_constraints(n, opt)))
  /\ UNCHANGED driver_vars

CallCreateInstanceJson ==
  /\ call.fn = "none"
  /\ \E n \in 0..MaxUnits, ne \in Range(N_ESTIMATORS_LIST),
        opt \in OptLists, const \in ConstLists :
       call' = Called("create_instance_json",
                      <<n, ne, opt, const, SmallFrame, model_filename(ne)>>,
                      create_instance_json(n, ne, opt, const, SmallFrame,
                                           model_filename(ne)))
  /\ UNCHANGED driver_vars

CallR2Score ==
  /\ call.fn = "none"
  /\ \E n \in 0..MaxVecLen :
       \E y_true \in [1..n -> R2Values], y_pred \in [1..n -> R2Values] :
         call' = Called("_r2_score", <<y_true, y_pred>>,
                        Return(_r2_score(y_true, y_pred)))
  /\ UNCHANGED driver_vars

\* the call returns (or its exception is caught): another can be made
CallEnds ==
  /\ call.fn # "none"
  /\ call' = NoCall
  /\ UNCHANGED driver_vars

FnNext ==
  \/ CallGenerateUnits
  \/ CallGetFeatureBounds
  \/ CallGenerateSumConstraints
  \/ CallCreateInstanceJson
  \/ CallEnds

FnSpec == FnInit /\ [][FnNext]_vars

R2Next == CallR2Score \/ CallEnds

R2Spec == FnInit /\ [][R2Next]_vars

(***************************************************************************)
(* Claims about the pure functions.                                         *)
(***************************************************************************)
IsCall(fn) == call.fn = fn

\* all values of the sequence are the same binary64
AllIdentical(v) == \A i, j \in 1..Len(v) : v[i] = v[j]

\* C8: whenever all ground-truth values are identical, _r2_score returns
\* exactly 0.0, whatever the predictions are.
C8_ZeroVarianceScoresZero ==
  (IsCall("_r2_score") /\ AllIdentical(call.args[1]))
    => call.result.value = FZero

\* the day after a calendar date
NextDay(date) ==
  IF date[3] < _days_in_month(date[1], date[2])
  THEN <<date[1], date[2], date[3] + 1>>
  ELSE IF date[2] < 12 THEN <<date[1], date[2] + 1, 1>>
  ELSE <<date[1] + 1, 1, 1>>

RECURSIVE AdvanceDays(_, _)
AdvanceDays(date, k) == IF k = 0 THEN date ELSE AdvanceDays(NextDay(date), k - 1)

AdvanceWeeks(date, w) == AdvanceDays(date, 7 * w)

DateNamed(text) == (CHOOSE p \in BaseDateTable : p[1] = text)[2]

UnitDate(u) ==
  LET cf == DictGet(u, "constant_features")
  IN <<DictGet(cf, "year").v, DictGet(cf, "month").v, DictGet(cf, "day").v>>

\* the call returned n units, numbered 0..n-1 in order, unit i dated base
\* advanced by i weeks
UnitsAsSpecified(n, base, result) ==
  /\ result.raised = "none"
  /\ Len(result.value.v) = n
  /\ \A i \in 1..n :
       /\ DictGet(result.value.v[i], "unit_id").v = i - 1
       /\ DictKeys(DictGet(result.value.v[i], "constant_features"))
            = <<"year", "month", "day">>
       /\ UnitDate(result.value.v[i]) = AdvanceWeeks(base, i - 1)

\* C6 as stated: for all N >= 0 and every base date, generate_units returns
\* exactly N units with unit_id 0..N-1 in ascending order, unit i carrying the
\* (year, month, day) of base_date advanced by i weeks.
C6_UnitsForEveryBaseDate ==
  IsCall("generate_units")
    => UnitsAsSpecified(call.args[1], DateNamed(call.args[2]), call.result)

\* the last unit's date is a date of the calendar (its year is at most 9999)
LastUnitRepresentable(n, base) ==
  n = 0 \/ AdvanceWeeks(base, n - 1)[1] <= MAXYEAR

\* C6 as amended: the same, for every N >= 0 and base date whose last unit's
\* date, base_date advanced by N-1 weeks, is not after 9999-12-31; N = 0
\* returns the empty sequence.
C6_UnitsWithinCalendar ==
  (IsCall("generate_units")
     /\ LastUnitRepresentable(call.args[1], DateNamed(call.args[2])))
    => UnitsAsSpecified(call.args[1], DateNamed(call.args[2]), call.result)

C6_Witness ==
  /\ IsCall("generate_units")
  /\ call.args = <<MaxUnits, "2023-12-25">>
  /\ call.result.raised = "none"
  /\ UnitDate(call.result.value.v[2]) = <<2024, 1, 1>>

\* the (unit, feature, coefficient) terms of a sum constraint, as a set
TermSet(c) ==
  {<<DictGet(t, "unit_id").v, DictGet(t, "feature").v, DictGet(t, "coefficient").v>> :
     t \in Range(DictGet(c, "variables").v)}

ConstraintId(c) == DictGet(c, "constraint_id").v

\* C7: generate_sum_constraints returns exactly N constraints, one per unit
\* index 0..N-1, with pairwise distinct identifiers derived from the unit
\* index; each constraint's term set is exactly {(this unit, f, 1.0) : f an
\* optimization feature} and its upper bound is 1000.0.
C7_SumConstraints ==
  IsCall("generate_sum_constraints") =>
    LET n == call.args[1]
        opt == call.args[2]
        cs == call.result.value.v
    IN /\ Len(cs) = n
       /\ \A i, j \in 1..Len(cs) : i # j => ConstraintId(cs[i]) # ConstraintId(cs[j])
       /\ \A i \in 1..Len(cs) :
            /\ ConstraintId(cs[i]) = "unit_" \o ToString(i - 1) \o "_total"
            /\ TermSet(cs[i]) = {<<i - 1, f, FromInt(1)>> : f \in Range(opt)}
            /\ Len(DictGet(cs[i], "variables").v) = Len(opt)
            /\ DictGet(cs[i], "upper_bound").v = FromInt(1000)

C7_Witness ==
  /\ IsCall("generate_sum_constraints")
  /\ call.args = <<MaxUnits, <<"x1", "x2">>>>
  /\ Len(call.result.value.v) = MaxUnits
  /\ TermSet(call.result.value.v[MaxUnits])
       = {<<MaxUnits - 1, "x1", FromInt(1)>>, <<MaxUnits - 1, "x2", FromInt(1)>>}

\* C10: in every instance create_instance_json returns, n_units is the length
\* of units, n_sum_constraints the length of constraints.sum_constraints and
\* equal to n_units, n_optimization_features the length of
\* features.optimization_features, n_constant_features the length of
\* features.constant_features, and every sum constraint's upper_bound is
\* 1000.0.
C10_CountsAgree ==
  (IsCall("create_instance_json") /\ call.result.raised = "none") =>
    LET inst == call.result.value
        features == DictGet(inst, "features")
        cs == DictGet(DictGet(inst, "constraints"), "sum_constraints").v
    IN /\ DictGet(inst, "n_units").v = Len(DictGet(inst, "units").v)
       /\ DictGet(inst, "n_sum_constraints").v = Len(cs)
       /\ DictGet(inst, "n_sum_constraints").v = DictGet(inst, "n_units").v
       /\ DictGet(inst, "n_optimization_features").v
            = Len(DictGet(features, "optimization_features").v)
       /\ DictGet(inst, "n_constant_features").v
            = Len(DictGet(features, "constant_features").v)
       /\ \A i \in 1..Len(cs) : DictGet(cs[i], "upper_bound").v = FromInt(1000)

\* 7 optimization features, 3 constant features, unit_count = 1
C10_Witness ==
  /\ IsCall("create_instance_json")
  /\ call.args[1] = 1
  /\ call.args[3] = opt_feature_cols
  /\ call.args[4] = const_feature_cols
  /\ call.result.raised = "none"
  /\ DictGet(call.result.value, "n_units").v = 1
  /\ DictGet(call.result.value, "n_optimization_features").v = 7
  /\ DictGet(call.result.value, "n_constant_features").v = 3
  /\ DictGet(call.result.value, "n_sum_constraints").v = 1

(***************************************************************************)
(* Claims about the generation driver.                                      *)
(***************************************************************************)
SaveEvents(path) ==
  {i \in 1..Len(trace) : trace[i].op = "save_model" /\ trace[i].path = path}

InstanceEvents == {j \in 1..Len(trace) : trace[j].op = "write_instance"}

\* model.file_path of the instance of a write_instance event
ModelRef(ev) == DictGet(DictGet(ev.obj, "model"), "file_path").v

PyStrings(list) == [i \in 1..Len(list.v) |-> list.v[i].v]

\* model.input_features_order of the instance of a write_instance event
FeatureOrder(ev) ==
  PyStrings(DictGet(DictGet(ev.obj, "model"), "input_features_order"))

\* the names of features.optimization_features, then features.constant_features
FeatureNamesOf(ev) ==
  LET features == DictGet(ev.obj, "features")
      bounds == DictGet(features, "optimization_features").v
  IN [i \in 1..Len(bounds) |-> DictGet(bounds[i], "name").v]
       \o PyStrings(DictGet(features, "constant_features"))

Levels == Range(n_estimators_list)
UnitCounts == Range(n_units_list)

\* the levels whose model this run is past saving
LevelsSaved ==
  {n_estimators_list[k] : k \in {k \in 1..Len(n_estimators_list) :
     k < ei \/ (k = ei /\ pc \in {"instance", "done"})}}

\* C1: in a run of main, the model file of every complexity level is saved
\* exactly once, and that save comes strictly before the write of every
\* instance whose model.file_path names it.
C1_ModelSavedOnceBeforeItsInstances ==
  /\ \A c \in Levels :
       /\ Cardinality(SaveEvents(model_filename(c))) <= 1
       /\ c \in LevelsSaved => Cardinality(SaveEvents(model_filename(c))) = 1
  /\ \A j \in InstanceEvents :
       /\ Cardinality(SaveEvents(ModelRef(trace[j]))) = 1
       /\ \A i \in SaveEvents(ModelRef(trace[j])) : i < j

C1_Witness ==
  /\ pc = "done"
  /\ Len(n_estimators_list) = Len(N_ESTIMATORS_LIST)
  /\ Len(n_units_list) = Len(N_UNITS_LIST)
  /\ Cardinality(InstanceEvents) = Len(N_ESTIMATORS_LIST) * Len(N_UNITS_LIST)

\* C2: for every instance the driver writes, model.input_features_order is
\* the optimization-feature names followed by the constant-feature names, and
\* it is the ordered feature list the trainer was given when fitting the
\* model the instance references: column p of the matrix given to lgb.train
\* is the dataset column named by entry p.
C2_FeatureOrderIsTheTrainers ==
  \A j \in InstanceEvents :
    /\ FeatureOrder(trace[j]) = FeatureNamesOf(trace[j])
    /\ \E k \in 1..Len(lgb_calls) :
         /\ model_filename(lgb_calls[k].n_estimators) = ModelRef(trace[j])
         /\ lgb_calls[k].feature_cols = FeatureOrder(trace[j])
         /\ Len(lgb_calls[k].X) = Len(FeatureOrder(trace[j]))
         /\ \A p \in 1..Len(lgb_calls[k].X) :
              lgb_calls[k].X[p] = df.data[FeatureOrder(trace[j])[p]]

C2_Witness ==
  /\ pc = "done"
  /\ \E j \in InstanceEvents :
       /\ trace[j].ok
       /\ FeatureOrder(trace[j]) = opt_feature_cols \o const_feature_cols
       /\ ModelRef(trace[j]) = "lgbm_500.txt"

\* C3: a failed mkdir or file write ends the run there (it is the run's last
\* file-system call: nothing is retried, nothing later is processed), and no
\* instance is written unless the save of the model it references succeeded
\* before.
C3_FailureAbortsAndNoOrphanInstance ==
  /\ \A i \in 1..Len(trace) :
       ~trace[i].ok => (i = Len(trace) /\ pc = "aborted" /\ error # "none")
  /\ \A j \in InstanceEvents :
       \E i \in 1..(j - 1) :
         /\ trace[i].op = "save_model"
         /\ trace[i].ok
         /\ trace[i].path = ModelRef(trace[j])

\* the save of the second level's model fails, after the first level's
\* instances were written
C3_Witness ==
  /\ pc = "aborted"
  /\ error = "LightGBMError"
  /\ ei = 2
  /\ trace[Len(trace)].op = "save_model"
  /\ ~trace[Len(trace)].ok
  /\ InstanceEvents # {}

ModelFilesWritten == {trace[i].path : i \in {i \in 1..Len(trace) :
                        trace[i].op = "save_model" /\ trace[i].ok}}

InstanceFilesWritten == {trace[j].path : j \in {j \in InstanceEvents : trace[j].ok}}

\* C4: a run that completes, started on an empty output directory, leaves
\* exactly |C| model files and |C|*|U| instance files, one per (c, u), every
\* one written once, and the instance of (c, u) has model.file_path equal to
\* the file name of the model saved for c.
C4_OneModelPerLevelOneInstancePerPair ==
  (pc = "done" /\ run = 1 /\ files0 = EmptyDir) =>
    /\ Cardinality(ModelFilesWritten) = Cardinality(Levels)
    /\ Cardinality(InstanceFilesWritten) = Cardinality(Levels) * Cardinality(UnitCounts)
    /\ ModelFilesWritten \cap InstanceFilesWritten = {}
    /\ DOMAIN files = ModelFilesWritten \cup InstanceFilesWritten
    /\ \A i, j \in 1..Len(trace) :
         (i # j /\ trace[i].op # "mkdir") => trace[i].path # trace[j].path
    /\ \A c \in Levels :
         /\ model_filename(c) \in ModelFilesWritten
         /\ \A u \in UnitCounts :
              \E j \in InstanceEvents :
                /\ trace[j].path = json_filename(u, c)
                /\ ModelRef(trace[j]) = model_filename(c)
                /\ files[trace[j].path] # ""

\* the grid [100, 500] x [1, 10]: 2 model files and 4 instance files
C4_Witness ==
  /\ pc = "done" /\ run = 1 /\ files0 = EmptyDir
  /\ n_estimators_list = <<100, 500>>
  /\ n_units_list = <<1, 10>>
  /\ Cardinality(ModelFilesWritten) = 2
  /\ Cardinality(InstanceFilesWritten) = 4
  /\ Cardinality(DOMAIN files) = 6

Malformed(frame) ==
  \E c \in Range(main_feature_cols) \cup {main_target_col} : c \notin Range(frame.columns)

\* C9: with a malformed dataset the trainer fails with a data-shape error
\* before lgb.train is called, the error ends the run, and no model file and
\* no instance file is written.
C9_MalformedDataFailsBeforeTraining ==
  Malformed(csv) =>
    /\ lgb_calls = <<>>
    /\ \A i \in 1..Len(trace) : trace[i].op = "mkdir"
    /\ files = files0
    /\ pc \in {"start", "read", "train", "aborted"}
    /\ pc = "aborted" =>
         \/ error = "ColumnNotFoundError" /\ ei = 1
         \/ error = "OSError" /\ ~trace[Len(trace)].ok

C9_Witness ==
  /\ Malformed(csv)
  /\ main_target_col \notin Range(csv.columns)
  /\ pc = "aborted"
  /\ error = "ColumnNotFoundError"
  /\ df = csv

====
